---- MODULE Spec2Model ----
(***************************************************************************)
(* A model of the document question-answering tool: core_rag.py (file      *)
(* decoding, index building, retrieval and answering) and ui/app.py (the   *)
(* Streamlit script that is re-run top to bottom on every interaction).    *)
(*                                                                         *)
(* Strings are sequences of characters, files are sequences of bytes.      *)
(* Every text of the model is shorter than the splitter's chunk_size, so   *)
(* a document yields at most one chunk; several chunks come from several   *)
(* documents.  The embedding model and the QA model are pretrained         *)
(* libraries: the embedding is a fixed function of the text, the QA model  *)
(* either returns an answer with a score or raises.  EMBEDDING_MODEL and   *)
(* QA_PIPELINE are taken to be what their names and their uses say (an     *)
(* encoder of texts, a question-answering pipeline).  A call of            *)
(* build_faiss_index runs to completion, and one run of the script is one  *)
(* step.                                                                   *)
(***************************************************************************)
EXTENDS Integers, Sequences, FiniteSets, TLC

VARIABLES
    docs,            \* the documents/ directory: file name -> bytes
    indexFile,       \* document_qa_index.faiss: [exists, data], data the vectors
    chunksFile,      \* document_chunks.json:    [exists, data], data the chunks
    session_state,   \* per session: index_built, document_count, current_documents_hash
    opened,          \* sessions whose script has run at least once
    uploader,        \* per session: the file uploader holds files
    askOffered,      \* per session: the last run rendered the "Get Answer" button
    initial_done,    \* st.cache_resource holds the result of initial_index_build
    hashFresh,       \* per session: documents/ untouched since the session stored its hash
    last             \* what the last operation did (calls made, values returned)

vars == <<docs, indexFile, chunksFile, session_state, opened, uploader,
          askOffered, initial_done, hashFresh, last>>

uiVars == <<docs, session_state, opened, uploader, askOffered, initial_done, hashFresh>>

-----------------------------------------------------------------------------
(* Bounds and program constants *)

MaxDocs == 3
MaxUpload == 1

DefaultTopK == 3
chunk_size == 500

\* The browser sessions that share the working directory
Sessions == {"s1", "s2"}

-----------------------------------------------------------------------------
(* Strings *)

Whitespace == {" ", "\n"}

RECURSIVE LStrip(_)
LStrip(t) ==
    IF t = <<>> THEN <<>>
    ELSE IF Head(t) \in Whitespace THEN LStrip(Tail(t)) ELSE t

RECURSIVE RStrip(_)
RStrip(t) ==
    IF t = <<>> THEN <<>>
    ELSE IF t[Len(t)] \in Whitespace THEN RStrip(SubSeq(t, 1, Len(t) - 1)) ELSE t

\* str.strip()
Strip(t) == RStrip(LStrip(t))

\* sep.join(parts)
RECURSIVE Join(_, _)
Join(sep, parts) ==
    IF parts = <<>> THEN <<>>
    ELSE IF Len(parts) = 1 THEN parts[1]
    ELSE parts[1] \o sep \o Join(sep, Tail(parts))

RECURSIVE Count(_, _)
Count(t, c) ==
    IF t = <<>> THEN 0
    ELSE (IF Head(t) = c THEN 1 ELSE 0) + Count(Tail(t), c)

-----------------------------------------------------------------------------
(* Library calls of core_rag.py *)

\* RecursiveCharacterTextSplitter(chunk_size=500, chunk_overlap=50).split_text
\* on a text no longer than chunk_size: the stripped text, if any is left.
split_text(doc_text) ==
    LET s == Strip(doc_text) IN IF s = <<>> THEN <<>> ELSE <<s>>

\* EMBEDDING_MODEL.encode on one text: a fixed function into a vector space.
encode(t) == <<Count(t, "x"), Count(t, "y")>>

\* The metric of faiss.IndexFlatL2: squared Euclidean distance.
L2(u, v) == (u[1] - v[1]) * (u[1] - v[1]) + (u[2] - v[2]) * (u[2] - v[2])

\* Insert position i into a list of positions kept in ascending distance;
\* positions at equal distance keep their order of arrival.
RECURSIVE InsertByDistance(_, _, _, _)
InsertByDistance(sorted, i, vectors, q) ==
    IF sorted = <<>> THEN <<i>>
    ELSE IF L2(vectors[i + 1], q) < L2(vectors[Head(sorted) + 1], q)
         THEN <<i>> \o sorted
         ELSE <<Head(sorted)>> \o InsertByDistance(Tail(sorted), i, vectors, q)

RECURSIVE SortByDistance(_, _, _)
SortByDistance(order, vectors, q) ==
    IF order = <<>> THEN <<>>
    ELSE InsertByDistance(SortByDistance(SubSeq(order, 1, Len(order) - 1), vectors, q),
                          order[Len(order)], vectors, q)

\* index.search(query_vec, top_k)[1][0]: the labels (0-based) of the top_k
\* nearest vectors in ascending distance, padded with -1 when the index
\* holds fewer.  scan is the order in which equal distances are met.
search_Unranked(vectors, q, top_k, scan) ==
    [j \in 1..top_k |-> IF j <= Len(scan) THEN scan[j] ELSE -1]

search(vectors, q, top_k, scan) ==
    LET ranked == SortByDistance(scan, vectors, q)
    IN  [j \in 1..top_k |-> IF j <= Len(ranked) THEN ranked[j] ELSE -1]

\* The scan orders of an index of n vectors: the permutations of 0..n-1.
ScanOrders(n) ==
    {p \in [1..n -> 0..(n - 1)] : \A a, b \in 1..n : a # b => p[a] # p[b]}

-----------------------------------------------------------------------------
(* core_rag.py *)

\* A file name is <<stem, extension>>; os.path.splitext(file_name)[1].lower()
Extension(file_name) == file_name[2]

\* bytes.decode("utf-8") raises on the byte E9, which no continuation byte
\* follows in the byte alphabet of the model.
Utf8Valid(bytes) == \A i \in 1..Len(bytes) : bytes[i] # "E9"

\* bytes.decode("latin-1"): every byte is a character, E9 is e-acute.
DecodeLatin1(bytes) == [i \in 1..Len(bytes) |-> IF bytes[i] = "E9" THEN "e'" ELSE bytes[i]]

\* str.encode("utf-8"): e-acute takes two bytes.
RECURSIVE EncodeUtf8(_)
EncodeUtf8(t) ==
    IF t = <<>> THEN <<>>
    ELSE (IF Head(t) = "e'" THEN <<"C3", "A9">> ELSE <<Head(t)>>) \o EncodeUtf8(Tail(t))

\* csv.reader over one line without quotes, the columns joined by ", ".
RECURSIVE CsvText(_)
CsvText(t) ==
    IF t = <<>> THEN <<>>
    ELSE (IF Head(t) = "," THEN <<",", " ">> ELSE <<Head(t)>>) \o CsvText(Tail(t))

\* PdfReader: raises unless the bytes open with the header marker "%"; the
\* text of the pages is what follows it.  (No .pdf file is among the files
\* of the model.)
PdfValid(bytes) == bytes # <<>> /\ Head(bytes) = "%"

None == [none |-> TRUE, text |-> <<>>]
Text(t) == [none |-> FALSE, text |-> t]

\* Python truthiness of Union[str, None]
Truthy(r) == ~r.none /\ r.text # <<>>

process_file_content(file_name, file_content_bytes) ==
    LET file_extension == Extension(file_name) IN
    IF file_extension = ".txt" THEN
        IF Utf8Valid(file_content_bytes)
        THEN Text(file_content_bytes)
        ELSE Text(DecodeLatin1(file_content_bytes))
    ELSE IF file_extension = ".pdf" THEN
        IF PdfValid(file_content_bytes) THEN Text(Tail(file_content_bytes)) ELSE None
    ELSE IF file_extension = ".csv" THEN
        IF Utf8Valid(file_content_bytes) THEN Text(CsvText(file_content_bytes)) ELSE None
    ELSE None

Absent == [exists |-> FALSE, data |-> <<>>]
Stored(d) == [exists |-> TRUE, data |-> d]

RECURSIVE AllChunks_Reversed(_)
AllChunks_Reversed(document_texts) ==
    IF document_texts = <<>> THEN <<>>
    ELSE AllChunks_Reversed(Tail(document_texts)) \o split_text(Head(document_texts))

\* all_chunks: the chunks of every document, in document order
RECURSIVE AllChunks(_)
AllChunks(document_texts) ==
    IF document_texts = <<>> THEN <<>>
    ELSE split_text(Head(document_texts)) \o AllChunks(Tail(document_texts))

RemoveFiles_IndexOnly(fs) == [index |-> Absent, chunks |-> fs.chunks]

\* os.remove of each of the two files, if it exists
RemoveFiles(fs) == [index |-> Absent, chunks |-> Absent]

\* build_faiss_index(document_texts) on the files fs = [index, chunks]:
\* the files afterwards and the value returned.
build_faiss_index(fs, document_texts) ==
    IF document_texts = <<>> THEN
        [index |-> RemoveFiles(fs).index, chunks |-> RemoveFiles(fs).chunks, ret |-> FALSE]
    ELSE
        LET all_chunks == AllChunks(document_texts) IN
        IF all_chunks = <<>> THEN
            [index |-> fs.index, chunks |-> fs.chunks, ret |-> FALSE]
        ELSE
            LET vectors == [i \in 1..Len(all_chunks) |-> encode(all_chunks[i])] IN
            [index |-> Stored(vectors), chunks |-> Stored(all_chunks), ret |-> TRUE]

MsgNotBuilt == "Error: Knowledge base not built. Please upload documents and build the index."
MsgLoadError == "An error occurred while loading the knowledge base."
MsgNoContext == "No relevant context found in documents for your query."
MsgQAError == "An error occurred during answer generation."

Response(answer, score, context) ==
    [answer |-> answer, score |-> score, context |-> context]

Raised(e) == [raised |-> e]

\* chunks[i] of Python: a negative i counts from the end.
InRange(chunks, i) == -Len(chunks) <= i /\ i < Len(chunks)
PyItem(chunks, i) == IF i < 0 THEN chunks[Len(chunks) + i + 1] ELSE chunks[i + 1]

QAErrorResponse_KeepsContext(context_for_qa) == Response(MsgQAError, 0, context_for_qa)

\* The dict returned when the QA model raises
QAErrorResponse(context_for_qa) == Response(MsgQAError, 0, <<>>)

\* What a call of get_answer_from_rag did.
Call(query, top_k, outcome, loaded, searched, retrieved, qa_context, resp) ==
    [query |-> query, top_k |-> top_k, outcome |-> outcome, loaded |-> loaded,
     searched |-> searched, retrieved |-> retrieved, qa_context |-> qa_context,
     resp |-> resp]

\* get_answer_from_rag(query, top_k) on the files fs.  env is what the call
\* meets outside the program: loadOk (the files can be read back), scan (the
\* order in which the index meets equal distances), qa (the QA model returns
\* qa.answer and qa.score, or raises).
get_answer_from_rag(fs, query, top_k, env) ==
    IF ~fs.index.exists \/ ~fs.chunks.exists THEN
        Call(query, top_k, "missing", FALSE, FALSE, <<>>, <<>>,
             Response(MsgNotBuilt, 0, <<>>))
    ELSE IF ~env.loadOk THEN
        Call(query, top_k, "load_error", TRUE, FALSE, <<>>, <<>>,
             Response(MsgLoadError, 0, <<>>))
    ELSE
        LET index == fs.index.data
            chunks == fs.chunks.data
            query_vec == encode(query)
        IN
        IF top_k <= 0 THEN
            Call(query, top_k, "raised", TRUE, FALSE, <<>>, <<>>, Raised("AssertionError"))
        ELSE
            LET I == search(index, query_vec, top_k, env.scan) IN
            IF \E j \in 1..Len(I) : ~InRange(chunks, I[j]) THEN
                Call(query, top_k, "raised", TRUE, TRUE, I, <<>>, Raised("IndexError"))
            ELSE
                LET retrieved_chunks == [j \in 1..Len(I) |-> PyItem(chunks, I[j])]
                    context_for_qa == Join(<<"\n", "\n">>, retrieved_chunks)
                IN
                IF Strip(context_for_qa) = <<>> THEN
                    Call(query, top_k, "empty_context", TRUE, TRUE, I, <<>>,
                         Response(MsgNoContext, 0, <<>>))
                ELSE IF env.qa.ok THEN
                    Call(query, top_k, "ok", TRUE, TRUE, I, context_for_qa,
                         Response(env.qa.answer, env.qa.score, context_for_qa))
                ELSE
                    Call(query, top_k, "qa_error", TRUE, TRUE, I, context_for_qa,
                         QAErrorResponse(context_for_qa))

\* The outcomes of the QA model: an answer with a score (in hundredths), or
\* an exception.
QAOutcomes ==
    {[ok |-> FALSE, answer |-> "", score |-> 0]}
    \cup {[ok |-> TRUE, answer |-> "an answer", score |-> 87]}

\* What a call can meet, for an index of n vectors: the files cannot be read
\* back, or they can and the search and the QA model go one of their ways.
Envs(n) ==
    {[loadOk |-> FALSE, scan |-> <<>>, qa |-> CHOOSE qa \in QAOutcomes : ~qa.ok]}
    \cup {[loadOk |-> TRUE, scan |-> sc, qa |-> qa] :
            sc \in ScanOrders(n), qa \in QAOutcomes}

Files == [index |-> indexFile, chunks |-> chunksFile]
NTotal == IF indexFile.exists THEN Len(indexFile.data) ELSE 0

-----------------------------------------------------------------------------
(* Inputs *)

\* Sequences over S of length lo..hi
SeqsUpTo(S, lo, hi) == UNION {[1..n -> S] : n \in lo..hi}

\* Document texts handed to build_faiss_index, all shorter than chunk_size
TextPool ==
    {t \in {<<" ">>, <<"x">>, <<" ", "y">>} :
        Len(t) <= chunk_size}

Queries == {<<>>, <<"x">>, <<"y">>}

\* Values of top_k given explicitly: none at all, fewer than, as many as and
\* more than the default
TopKs == 0..(DefaultTopK + 1)

-----------------------------------------------------------------------------
(* State *)

NoHash == [set |-> FALSE, digest |-> <<>>]
Hash(d) == [set |-> TRUE, digest |-> d]

NewSession ==
    [index_built |-> FALSE, document_count |-> 0, current_documents_hash |-> NoHash]

\* The record of the last operation.
Last(op, s, files, builds, asks) ==
    [op |-> op, s |-> s, files |-> files, builds |-> builds, asks |-> asks]

\* A call of build_faiss_index: its argument, whether both files existed
\* before it, and the value returned.
BuildCall(texts, fs, ret) ==
    [texts |-> texts, existed |-> fs.index.exists /\ fs.chunks.exists, ret |-> ret]

-----------------------------------------------------------------------------
(* The functions of core_rag.py called directly *)

CoreBuild(document_texts) ==
    \E r \in {build_faiss_index(Files, document_texts)} :
    /\ indexFile' = r.index
    /\ chunksFile' = r.chunks
    /\ last' = Last("build", "core", <<>>, <<BuildCall(document_texts, Files, r.ret)>>, <<>>)
    /\ UNCHANGED uiVars

CoreQuery(query, top_k, env) ==
    /\ last' = Last("query", "core", <<>>, <<>>,
                    <<get_answer_from_rag(Files, query, top_k, env)>>)
    /\ UNCHANGED <<indexFile, chunksFile>>
    /\ UNCHANGED uiVars

\* get_answer_from_rag(query): top_k takes its default
CoreQueryDefault(query, env) ==
    /\ last' = Last("query_default", "core", <<>>, <<>>,
                    <<get_answer_from_rag(Files, query, DefaultTopK, env)>>)
    /\ UNCHANGED <<indexFile, chunksFile>>
    /\ UNCHANGED uiVars

-----------------------------------------------------------------------------
(* ui/app.py *)

\* The file names of the model, in the order os.listdir reports them
NameOrder == << <<"news", ".txt">>, <<"b", ".csv">> >>
FileNames == {NameOrder[i] : i \in 1..Len(NameOrder)}

\* File contents: a blank or a word for a .txt file, a byte that is not UTF-8
\* or two columns for a .csv file
Contents(name) ==
    IF Extension(name) = ".csv"
    THEN {<<"E9">>, <<"x", ",", "y">>}
    ELSE {<<" ">>, <<"x">>}

UploadedFile(name, bytes) == [name |-> name, bytes |-> bytes]

\* What the uploader can hold when the button is pressed: 1..MaxUpload files
\* of different names
Uploads ==
    {u \in SeqsUpTo(UNION {{UploadedFile(n, c) : c \in Contents(n)} : n \in FileNames}, 1, MaxUpload) :
        \A a, b \in 1..Len(u) : a # b => u[a].name # u[b].name}

\* os.listdir(DOCUMENTS_DIR), files only
listdir(d) == SelectSeq(NameOrder, LAMBDA n : n \in DOMAIN d)

\* hashlib.md5().update(..)...hexdigest(): the digest stands for the bytes
\* fed to it, in order (MD5 taken as collision-free).
md5(bytes) == bytes

RECURSIVE DiskTexts(_, _)
DiskTexts(d, names) ==
    IF names = <<>> THEN <<>>
    ELSE LET text == process_file_content(Head(names), d[Head(names)]) IN
         (IF Truthy(text) THEN <<text.text>> ELSE <<>>) \o DiskTexts(d, Tail(names))

RECURSIVE DiskBytes(_, _)
DiskBytes(d, names) ==
    IF names = <<>> THEN <<>>
    ELSE d[Head(names)] \o DiskBytes(d, Tail(names))

get_current_document_texts_from_disk(d) ==
    [doc_texts |-> DiskTexts(d, listdir(d)), hash |-> Hash(md5(DiskBytes(d, listdir(d))))]

\* The world a run of the script works on: the directory, the two files, the
\* session's state, the build_faiss_index calls made so far in the run, and
\* whether the run stored current_documents_hash.
World(d, fs, ss, builds, stored) ==
    [docs |-> d, fs |-> fs, ss |-> ss, builds |-> builds, stored |-> stored]

Built(ss, count, hash) ==
    [index_built |-> TRUE, document_count |-> count, current_documents_hash |-> hash]
NotBuilt(ss) ==
    [index_built |-> FALSE, document_count |-> 0,
     current_documents_hash |-> ss.current_documents_hash]

\* A build_faiss_index call made by the script, and the session state set
\* from its result.
SetFromBuild(w, texts, hash, r) ==
    World(w.docs, [index |-> r.index, chunks |-> r.chunks],
          IF r.ret THEN Built(w.ss, Len(texts), hash) ELSE NotBuilt(w.ss),
          Append(w.builds, BuildCall(texts, w.fs, r.ret)),
          w.stored \/ r.ret)

BuildAndSet(w, texts, hash) == SetFromBuild(w, texts, hash, build_faiss_index(w.fs, texts))

initial_index_build(w) ==
    LET d == get_current_document_texts_from_disk(w.docs) IN
    IF d.doc_texts # <<>>
    THEN BuildAndSet(w, d.doc_texts, d.hash)
    ELSE World(w.docs, w.fs, NotBuilt(w.ss), w.builds, w.stored)

RECURSIVE SaveAll(_, _)
SaveAll(d, files) ==
    IF files = <<>> THEN d
    ELSE SaveAll((Head(files).name :> Head(files).bytes) @@ d, Tail(files))

RECURSIVE UploadTexts(_)
UploadTexts(files) ==
    IF files = <<>> THEN <<>>
    ELSE LET text == process_file_content(Head(files).name, Head(files).bytes) IN
         (IF Truthy(text) THEN <<text.text>> ELSE <<>>) \o UploadTexts(Tail(files))

RECURSIVE TextBytes(_)
TextBytes(texts) ==
    IF texts = <<>> THEN <<>>
    ELSE EncodeUtf8(Head(texts)) \o TextBytes(Tail(texts))

\* The directory with every file removed
Cleared == [n \in {} |-> <<>>]

\* "Process & Rebuild Knowledge Base" pressed, up to st.rerun()
ProcessAndRebuild(w, uploaded_files) ==
    LET saved == SaveAll(Cleared, uploaded_files)
        new_doc_texts_from_upload == UploadTexts(uploaded_files)
    IN  BuildAndSet(World(saved, w.fs, w.ss, w.builds, w.stored),
                    new_doc_texts_from_upload,
                    Hash(md5(TextBytes(new_doc_texts_from_upload))))

NoUploadBranch_IgnoresFlag(w) ==
    LET d == get_current_document_texts_from_disk(w.docs) IN
    IF d.doc_texts # <<>> /\ d.hash # w.ss.current_documents_hash
    THEN BuildAndSet(w, d.doc_texts, d.hash)
    ELSE w

\* The branch taken when the uploader holds no file
NoUploadBranch(w) ==
    IF ~w.ss.index_built THEN
        LET d == get_current_document_texts_from_disk(w.docs) IN
        IF d.doc_texts # <<>> /\ d.hash # w.ss.current_documents_hash
        THEN BuildAndSet(w, d.doc_texts, d.hash)
        ELSE w
    ELSE w

QASection_NoFlagCheck(w, pressed, user_query, env) ==
    [form |-> TRUE,
     asks |-> IF pressed /\ user_query # <<>>
              THEN <<get_answer_from_rag(w.fs, user_query, DefaultTopK, env)>>
              ELSE <<>>]

\* "2. Ask a Question": whether the form is offered and the calls of
\* get_answer_from_rag made
QASection(w, pressed, user_query, env) ==
    IF w.ss.index_built THEN
        [form |-> TRUE,
         asks |-> IF pressed /\ user_query # <<>>
                  THEN <<get_answer_from_rag(w.fs, user_query, DefaultTopK, env)>>
                  ELSE <<>>]
    ELSE [form |-> FALSE, asks |-> <<>>]

\* The upload section of the script, after initial_index_build
UploadSection(s, uploaded, uploaded_files, pressedProcess) ==
    LET w0 == World(docs, Files, session_state[s], <<>>, FALSE)
        w1 == IF initial_done THEN w0 ELSE initial_index_build(w0)
    IN  IF uploaded
        THEN (IF pressedProcess THEN ProcessAndRebuild(w1, uploaded_files) ELSE w1)
        ELSE NoUploadBranch(w1)

\* One interaction of session s: the script runs top to bottom with the
\* widgets as given; after st.rerun() it runs once more with no button
\* pressed (initial_index_build is then cached, the uploader still holds its
\* files and the button is not pressed, so only the Q&A section acts).
Script(op, s, uploaded, uploaded_files, pressedProcess, pressedAsk, user_query, env) ==
    \E w \in {UploadSection(s, uploaded, uploaded_files, pressedProcess)} :
    \E qa \in {QASection(w, pressedAsk /\ ~pressedProcess, user_query, env)} :
        /\ docs' = w.docs
        /\ indexFile' = w.fs.index
        /\ chunksFile' = w.fs.chunks
        /\ session_state' = [session_state EXCEPT ![s] = w.ss]
        /\ opened' = opened \cup {s}
        /\ uploader' = [uploader EXCEPT ![s] = uploaded]
        /\ askOffered' = [askOffered EXCEPT ![s] = qa.form]
        /\ initial_done' = TRUE
        /\ hashFresh' = [t \in Sessions |->
                            IF t = s /\ w.stored THEN TRUE
                            ELSE hashFresh[t] /\ w.docs = docs]
        /\ last' = Last(op, s, uploaded_files, w.builds, qa.asks)

NoEnv == [loadOk |-> TRUE, scan |-> <<>>, qa |-> CHOOSE qa \in QAOutcomes : ~qa.ok]

\* A browser opens the app: the first run of the session
Open(s) ==
    /\ s \notin opened
    /\ Script("open", s, FALSE, <<>>, FALSE, FALSE, <<>>, NoEnv)

\* Files are put into the uploader
SelectFiles(s) ==
    /\ s \in opened
    /\ ~uploader[s]
    /\ Script("select", s, TRUE, <<>>, FALSE, FALSE, <<>>, NoEnv)

\* The uploader is emptied
ClearFiles(s) ==
    /\ s \in opened
    /\ uploader[s]
    /\ Script("clear", s, FALSE, <<>>, FALSE, FALSE, <<>>, NoEnv)

\* Any interaction that presses no button (typing the question)
Rerun(s) ==
    /\ s \in opened
    /\ Script("rerun", s, uploader[s], <<>>, FALSE, FALSE, <<>>, NoEnv)

\* "Process & Rebuild Knowledge Base", offered while the uploader holds files
PressProcess(s, uploaded_files) ==
    /\ s \in opened
    /\ uploader[s]
    /\ Script("process", s, TRUE, uploaded_files, TRUE, FALSE, <<>>, NoEnv)

\* "Get Answer", offered by the last run
PressGetAnswer(s, user_query, env) ==
    /\ s \in opened
    /\ askOffered[s]
    /\ Script("ask", s, uploader[s], <<>>, FALSE, TRUE, user_query, env)

\* documents/ as the import of core_rag leaves it: news.txt exists, with the
\* content it had before or the demo text (longer than chunk_size, not in the
\* model); other files may be there.
InitialDocs ==
    {<<"news", ".txt">> :> c : c \in Contents(<<"news", ".txt">>)}
    \cup {(<<"news", ".txt">> :> <<"x">>) @@ (<<"b", ".csv">> :> <<"x", ",", "y">>)}

Init ==
    /\ docs \in InitialDocs
    /\ indexFile = Absent
    /\ chunksFile = Absent
    /\ session_state = [s \in Sessions |-> NewSession]
    /\ opened = {}
    /\ uploader = [s \in Sessions |-> FALSE]
    /\ askOffered = [s \in Sessions |-> FALSE]
    /\ initial_done = FALSE
    /\ hashFresh = [s \in Sessions |-> FALSE]
    /\ last = Last("none", "core", <<>>, <<>>, <<>>)

NextCore ==
    \/ \E document_texts \in SeqsUpTo(TextPool, 0, MaxDocs) : CoreBuild(document_texts)
    \/ \E query \in Queries \ {<<>>}, top_k \in TopKs, env \in Envs(NTotal) :
            CoreQuery(query, top_k, env)
    \/ \E query \in Queries \ {<<>>}, env \in Envs(NTotal) : CoreQueryDefault(query, env)

\* The two functions called directly, from the directory of a first start
InitCore == Init /\ DOMAIN docs = {<<"news", ".txt">>} /\ docs[<<"news", ".txt">>] = <<"x">>

SpecCore == InitCore /\ [][NextCore]_vars

Next ==
    \/ \E s \in Sessions : Open(s)
    \/ \E s \in Sessions : SelectFiles(s)
    \/ \E s \in Sessions : ClearFiles(s)
    \/ \E s \in Sessions : Rerun(s)
    \/ \E s \in Sessions, uploaded_files \in Uploads : PressProcess(s, uploaded_files)
    \/ \E s \in Sessions, user_query \in Queries, env \in Envs(NTotal) :
            PressGetAnswer(s, user_query, env)

Spec == Init /\ [][Next]_vars

-----------------------------------------------------------------------------
(* Properties *)

QueryOps == {"query", "query_default"}
RunOps == {"open", "select", "clear", "rerun", "process", "ask"}

ErrorAnswers == {MsgNotBuilt, MsgLoadError, MsgNoContext, MsgQAError}
ErrorOutcomes == {"missing", "load_error", "empty_context", "qa_error"}

\* C1: every call of get_answer_from_rag that returns yields a dict with
\* exactly the keys answer, score and context; with the index file or the
\* chunks file missing it returns the "Knowledge base not built" error without
\* loading or searching; every error outcome has score 0.0 and context "".
C1_ReturnedDict(call) ==
    call.outcome # "raised" =>
        /\ DOMAIN call.resp = {"answer", "score", "context"}
        /\ (call.outcome \in ErrorOutcomes \/ call.resp.answer \in ErrorAnswers) =>
                call.resp.score = 0 /\ call.resp.context = <<>>
        /\ call.outcome = "missing" =>
                call.resp.answer = MsgNotBuilt /\ ~call.loaded /\ ~call.searched

C1_AnswerContract ==
    /\ [](\A j \in 1..Len(last.asks) : C1_ReturnedDict(last.asks[j]))
    /\ [][(last'.op \in QueryOps /\ (~indexFile.exists \/ ~chunksFile.exists)) =>
            last'.asks[1].outcome = "missing"]_vars

\* C1 witness: a call that retrieved a context and met an exception in the
\* QA model
C1_Witness ==
    /\ last.op \in QueryOps
    /\ last.asks[1].outcome = "qa_error"
    /\ last.asks[1].qa_context # <<>>

Distance(call, label) == L2(indexFile.data[label + 1], encode(call.query))

RECURSIVE BlankLineJoined(_)
BlankLineJoined(parts) ==
    IF Len(parts) = 1 THEN parts[1]
    ELSE BlankLineJoined(SubSeq(parts, 1, Len(parts) - 1))
            \o <<"\n", "\n">> \o parts[Len(parts)]

C2_Retrieved(call) ==
    LET I == call.retrieved
        n == Len(indexFile.data)
        k == call.top_k
    IN
    (call.outcome \in {"ok", "qa_error"} /\ k <= n) =>
        /\ Len(I) = k
        /\ \A j \in 1..k : I[j] \in 0..(n - 1)
        /\ \A a, b \in 1..k : a < b => I[a] # I[b] /\ Distance(call, I[a]) <= Distance(call, I[b])
        /\ \A m \in 0..(n - 1) :
                (\A j \in 1..k : I[j] # m) => Distance(call, I[k]) <= Distance(call, m)
        /\ call.qa_context = BlankLineJoined([j \in 1..k |-> chunksFile.data[I[j] + 1]])
        /\ call.outcome = "ok" => call.resp.context = call.qa_context

\* C2: with at least top_k chunks indexed, get_answer_from_rag retrieves
\* exactly the top_k chunks nearest to the query by Euclidean distance
\* (3 unless top_k is given), and the context handed to the QA model and
\* returned on success is those chunks joined by a blank line in search order.
C2_TopKNearest ==
    last.op \in QueryOps =>
        /\ C2_Retrieved(last.asks[1])
        /\ last.op = "query_default" => last.asks[1].top_k = 3

\* C2 witness: a default call on three chunks that are not all equally far,
\* answered, whose nearest chunk is not the first one indexed
C2_Witness ==
    /\ last.op = "query_default"
    /\ last.asks[1].outcome = "ok"
    /\ Len(indexFile.data) = 3
    /\ last.asks[1].retrieved[1] # 0
    /\ Distance(last.asks[1], last.asks[1].retrieved[1])
            < Distance(last.asks[1], last.asks[1].retrieved[3])

\* C3: build_faiss_index([]) removes both persisted files, builds nothing and
\* returns False; a get_answer_from_rag call made directly afterwards returns
\* the "Knowledge base not built" error.
C3_EmptyBuildClears ==
    /\ []((last.op = "build" /\ last.builds[1].texts = <<>>) =>
            /\ ~indexFile.exists
            /\ ~chunksFile.exists
            /\ last.builds[1].ret = FALSE)
    /\ [][(last.op = "build" /\ last.builds[1].texts = <<>> /\ last'.op \in QueryOps) =>
            /\ last'.asks[1].outcome = "missing"
            /\ last'.asks[1].resp.answer = MsgNotBuilt]_vars

\* C3 witness: build_faiss_index([]) was called while both files existed
C3_Witness ==
    /\ last.op = "build"
    /\ last.builds[1].texts = <<>>
    /\ last.builds[1].existed

\* The chunks of a list of texts shorter than chunk_size: one per text that
\* is not blank, in the order of the texts
ExpectedChunks(texts) ==
    LET kept == SelectSeq(texts, LAMBDA t : \E i \in 1..Len(t) : t[i] \notin Whitespace)
    IN  [i \in 1..Len(kept) |-> Strip(kept[i])]

\* C4: after "Process & Rebuild Knowledge Base" with a non-empty upload, the
\* documents directory holds the uploaded files only, and the persisted
\* index and chunks hold only chunks of the uploaded files, or do not exist.
C4_UploadReplacesAll ==
    last.op = "process" =>
        /\ DOMAIN docs = {last.files[i].name : i \in 1..Len(last.files)}
        /\ \A i \in 1..Len(last.files) : docs[last.files[i].name] = last.files[i].bytes
        /\ \/ ~indexFile.exists /\ ~chunksFile.exists
           \/ /\ indexFile.exists /\ chunksFile.exists
              /\ \A i \in 1..Len(chunksFile.data) :
                    \E j \in 1..Len(last.files) :
                        LET text == process_file_content(last.files[j].name, last.files[j].bytes)
                        IN  Truthy(text) /\ chunksFile.data[i] = Strip(text.text)

\* C5: the UI calls get_answer_from_rag only in a run in which index_built is
\* True, "Get Answer" was pressed and the question is not empty; with
\* index_built False the form is not offered and no query is answered.
C5_AskOnlyWhenBuilt ==
    last.op \in RunOps =>
        LET s == last.s IN
        /\ last.asks # <<>> =>
                /\ session_state[s].index_built
                /\ last.op = "ask"
                /\ last.asks[1].query # <<>>
        /\ ~session_state[s].index_built => ~askOffered[s] /\ last.asks = <<>>

\* C5 witness: a question was answered through the UI
C5_Witness ==
    /\ last.op = "ask"
    /\ last.asks # <<>>
    /\ last.asks[1].outcome = "ok"

\* C6: when build_faiss_index returns True both files come from that build:
\* the chunks file lists the chunks of all documents in document order and
\* the index holds one vector per chunk in the same order; whenever both
\* files exist the index holds as many vectors as there are chunks.
C6_IndexMatchesChunks ==
    /\ (last.op = "build" /\ last.builds[1].ret) =>
            /\ indexFile.exists /\ chunksFile.exists
            /\ chunksFile.data = ExpectedChunks(last.builds[1].texts)
            /\ Len(indexFile.data) = Len(chunksFile.data)
            /\ \A i \in 1..Len(chunksFile.data) :
                    indexFile.data[i] = encode(chunksFile.data[i])
    /\ (indexFile.exists /\ chunksFile.exists) =>
            Len(indexFile.data) = Len(chunksFile.data)

\* C6 witness: a build over three documents, one of them blank, returned True
\* with two different chunks
C6_Witness ==
    /\ last.op = "build"
    /\ last.builds[1].ret
    /\ Len(last.builds[1].texts) = 3
    /\ Len(chunksFile.data) = 2
    /\ chunksFile.data[1] # chunksFile.data[2]

\* C7: in a run with no files in the uploader, build_faiss_index is called
\* iff index_built is False, a document on disk yields text and the hash of
\* the disk differs from current_documents_hash; while the disk is unchanged
\* since the hash was stored no rerun rebuilds, and with index_built True no
\* rebuild from disk happens.
C7_RebuildFromDiskRule ==
    [][(last'.op \in RunOps /\ ~uploader'[last'.s]) =>
        LET s == last'.s
            d == get_current_document_texts_from_disk(docs)
        IN
        /\ last'.builds # <<>> <=>
                /\ ~session_state[s].index_built
                /\ d.doc_texts # <<>>
                /\ d.hash # session_state[s].current_documents_hash
        /\ hashFresh[s] => last'.builds = <<>>
        /\ session_state[s].index_built => last'.builds = <<>>]_vars

\* C7 witness: a session whose index is not built and whose stored hash is
\* not the hash of the disk has just rebuilt from disk with the uploader empty
C7_Witness ==
    /\ last.op \in {"clear", "rerun"}
    /\ ~uploader[last.s]
    /\ last.builds # <<>>
    /\ last.builds[1].ret
    /\ last.builds[1].existed

\* C8: in every session, index_built True implies that both persisted files
\* exist, so no question asked through the UI gets "Knowledge base not built".
C8_FlagImpliesFiles ==
    /\ \A s \in opened :
            session_state[s].index_built => indexFile.exists /\ chunksFile.exists
    /\ last.op = "ask" => \A j \in 1..Len(last.asks) : last.asks[j].outcome # "missing"

====
